---- MODULE Spec2Model ----
(***************************************************************************)
(* aniniscale: dominant-colour downscaling of an image.                    *)
(*                                                                         *)
(* The module models src/main.cpp: the driver main() (argument checks,     *)
(* section planning, task creation, worker spawn/join, assembly), the      *)
(* WorkerPool (mutex-protected task list drained by worker threads) and    *)
(* work() (per-tile dominant colour vote with its early exit).             *)
(*                                                                         *)
(* Two specifications share the definitions that model work():             *)
(*   Spec      the whole program, one step per statement group of main()   *)
(*             and of WorkerPool::Worker, one step per tile of work();     *)
(*   SpecWork  the per-tile vote of work() on a one-tile image, one step   *)
(*             per iteration of the pixel loop, over every tile content.   *)
(***************************************************************************)
EXTENDS Integers, Sequences, FiniteSets, TLC

(***************************************************************************)
(* Bounds of the model.                                                    *)
(***************************************************************************)
\* largest image width / height opened by Spec
MaxWidth == 10
MaxHeight == 4
\* largest number of pixels (width * height) of an image opened by Spec
MaxArea == 20
\* largest x_factor / y_factor given on the command line in Spec
MaxFactor == 3
\* largest value returned by std::thread::hardware_concurrency()
MaxHC == 2
\* SpecReport: largest height and number of pixels of an opened image, last second of
\* the clock
MaxReportHeight == 2
MaxReportArea == 8
MaxClock == 10
\* SpecWork: largest tile size x_factor * y_factor, largest colour index
MaxTileSize == 5
MaxColour == 2
\* largest band count of an opened image
MaxBands == 2
\* SpecPlan: largest width and height of the opened image, largest value returned by
\* std::thread::hardware_concurrency()
MaxPlanSide == 12
MaxPlanHC == 9
\* SpecPack: the band samples of a pixel are drawn from MaxSample + 1 byte values
MaxSample == 3

\* width of unsigned int
UIntBits == 32
\* width of one band sample (unsigned char)
ByteBits == 8
\* number of arguments main() requires (argc < 5 is rejected)
ArgcNeeded == 5
\* initial value of the static bandCount
BandCountDefault == 3
\* seconds that must have passed since the last report before the next one is printed
ReportPeriod == 5

RECURSIVE Pow2(_)
Pow2(n) == IF n = 0 THEN 1 ELSE 2 * Pow2(n - 1)

ByteMod == Pow2(ByteBits)

(***************************************************************************)
(* unsigned int.  TLC's integers are 32 bits wide and signed, so          *)
(* an unsigned int is held as its 32-bit pattern read as a signed integer: *)
(* a value below 2^31 is itself, a value v from 2^31 on is v - 2^32.       *)
(* Sums, differences and products of the model stay inside the signed      *)
(* range (TLC stops on an overflow), so +, - and * on patterns are         *)
(* the integer operations; order and division are defined on patterns.     *)
(***************************************************************************)
\* 2^31 - 1
IntMax == (Pow2(UIntBits - 2) - 1) * 2 + 1

\* a > b, a < b on unsigned int
UGt(a, b) == IF (a < 0) = (b < 0) THEN a > b ELSE a < 0
ULt(a, b) == UGt(b, a)

\* a / b on unsigned int, b /= 0
UDiv(a, b) ==
    IF b < 0 THEN (IF a < 0 /\ a >= b THEN 1 ELSE 0)
    ELSE IF a >= 0 THEN a \div b
    ELSE IF b = 1 THEN a
    ELSE LET r == (a + IntMax) + 1
             q31 == IF IntMax % b = b - 1 THEN (IntMax \div b) + 1 ELSE IntMax \div b
             m31 == ((IntMax % b) + 1) % b
         IN  q31 + (r \div b) + ((m31 + (r % b)) \div b)

(***************************************************************************)
(* A colour key is an unsigned int used as a bit pattern: it is held as    *)
(* its bytes, byte 0 the least significant.                                *)
(***************************************************************************)
UIntBytes == UIntBits \div ByteBits
ZeroWord == [j \in 0 .. UIntBytes - 1 |-> 0]

\* v << n for a byte v and n a multiple of 8 below 32
Shl(v, n) == [j \in 0 .. UIntBytes - 1 |-> IF j = n \div ByteBits THEN v ELSE 0]

\* (v >> n) & 0xFF for n a multiple of 8 below 32
ShrByte(v, n) == v[n \div ByteBits]

Min(a, b) == IF a < b THEN a ELSE b

(***************************************************************************)
(* Images.  An image is a record [width, height, bands, pat]; its sample   *)
(* at (x, y, b) is a byte.  The images a run opens are drawn from a small  *)
(* family: a colour index per pixel given by one of a few patterns, and a  *)
(* palette turning a colour index into band bytes.                         *)
(***************************************************************************)
Patterns == {0, 1, 2, 3}

\* colour index of pixel (x, y) under pattern p
PatternColour(p, x, y) ==
    CASE p = 0 -> 1 + ((x \div 2) % 2) + 2 * ((y \div 2) % 2)
      [] p = 1 -> (x + y) % 2
      [] p = 2 -> (x * y + x) % 3
      [] OTHER -> x + 16 * y

\* byte of band b of palette colour c
PaletteByte(c, b) == (c + 100 * b * (1 + (c % 2))) % ByteMod

\* colour index of pixel (x, y) of image im: explicit cells (row-major), or a pattern
ColourAt(im, x, y) ==
    IF im.pat = -1 THEN im.cells[y * im.width + x + 1]
    ELSE PatternColour(im.pat, x, y)

\* sample of band b of pixel (x, y) of image im
ImgByte(im, x, y, b) == PaletteByte(ColourAt(im, x, y), b)

(***************************************************************************)
(* VImage regions.  A VImage derived from the opened image by extract_area *)
(* is the rectangle [x, y, w, h] of the opened image it shows.             *)
(***************************************************************************)
WholeArea(im) == [x |-> 0, y |-> 0, w |-> im.width, h |-> im.height]

\* extract_area(left, top, w, h) succeeds only inside the image it is applied to
ExtractOK(a, left, top, w, h) ==
    /\ w > 0 /\ h > 0
    /\ left >= 0 /\ top >= 0
    /\ left + w <= a.w /\ top + h <= a.h

extract_area(a, left, top, w, h) ==
    [x |-> a.x + left, y |-> a.y + top, w |-> w, h |-> h]

\* the source pixels a region shows
AreaPixels(a) == (a.x .. a.x + a.w - 1) \X (a.y .. a.y + a.h - 1)

\* area.data(): the region's samples, row-major, band-interleaved, index from 0
AreaData(im, a, bands) ==
    [k \in 0 .. (a.w * a.h * bands - 1) |->
        ImgByte(im, a.x + ((k \div bands) % a.w), a.y + ((k \div bands) \div a.w), k % bands)]

(***************************************************************************)
(* work(): the vote for one tile.                                          *)
(***************************************************************************)
\* a | b on bytes, and on unsigned ints
RECURSIVE ByteOr(_, _)
ByteOr(a, b) ==
    IF a = 0 THEN b
    ELSE IF b = 0 THEN a
    ELSE (IF a % 2 = 1 \/ b % 2 = 1 THEN 1 ELSE 0) + 2 * ByteOr(a \div 2, b \div 2)

BitOr(a, b) == [j \in 0 .. UIntBytes - 1 |-> ByteOr(a[j], b[j])]

\* shift of band b inside the colour key
BandShift(bands, b) == (bands - 1 - b) * ByteBits

\* color |= pixels[i * bandCount + b] << ((bandCount - 1 - b) * 8), for b = from .. bands - 1
RECURSIVE PackFrom(_, _, _, _, _)
PackFrom(color, pixels, i, bands, b) ==
    IF b >= bands THEN color
    ELSE PackFrom(BitOr(color, Shl(pixels[i * bands + b], BandShift(bands, b))),
                  pixels, i, bands, b + 1)

PackColor(pixels, i, bands) == PackFrom(ZeroWord, pixels, i, bands, 0)

\* (dominant >> ((bandCount - 1 - b) * 8)) & 0xFF
UnpackBandLowFirst(dominant, bands, b) == ShrByte(dominant, b * ByteBits)
UnpackBand(dominant, bands, b) == ShrByte(dominant, BandShift(bands, b))

\* size of each tile, and the threshold at which a colour is declared dominating
TileSize(xf, yf) == xf * yf
Win(size) == size \div 2

\* domCount < colors[color]
TakesLeadOnTie(domCount, cnt) == domCount <= cnt
TakesLead(domCount, cnt) == domCount < cnt

\* domCount >= win
NeverDominating(domCount, win) == FALSE
Dominating(domCount, win) == domCount >= win

NoVotes == [colors |-> [c \in {} |-> 0], dominant |-> ZeroWord, domCount |-> 0, brk |-> FALSE]

\* one iteration of the pixel loop after the colour key is packed
Vote(s, color, win) ==
    LET cnt == (IF color \in DOMAIN s.colors THEN s.colors[color] ELSE 0) + 1
        colors2 == [c \in (DOMAIN s.colors) \cup {color} |->
                       IF c = color THEN cnt ELSE s.colors[c]]
    IN  IF TakesLead(s.domCount, cnt)
        THEN [colors |-> colors2, dominant |-> color, domCount |-> cnt,
              brk |-> Dominating(cnt, win)]
        ELSE [s EXCEPT !.colors = colors2]

\* the pixel loop from index i on, s0 the vote so far (the vote and the colour key are
\* bound as values, once per iteration)
RECURSIVE ScanFrom(_, _, _, _, _, _)
ScanFrom(s0, i, pixels, size, bands, win) ==
    IF i >= size THEN s0
    ELSE CHOOSE r \in {IF s.brk THEN s
                       ELSE ScanFrom(Vote(s, color, win), i + 1, pixels, size, bands, win) :
                           s \in {s0}, color \in {PackColor(pixels, i, bands)}} : TRUE

\* the dominant colour key of a tile's pixel data
Reduce(pixels, size, bands) == ScanFrom(NoVotes, 0, pixels, size, bands, Win(size)).dominant

\* index of band b of tile (x, y) in the out vector
OutIndexTransposed(x, y, xt, yt, bands, b) == (x * yt + y) * bands + b
OutIndex(x, y, xt, yt, bands, b) == (y * xt + x) * bands + b

(***************************************************************************)
(* State.                                                                  *)
(***************************************************************************)
VARIABLES
    \* main(): position, exit code, inputs
    pc, exitCode, argc, img,
    \* globals
    x_factor, y_factor, bandCount, taskPixels, totalPixels,
    \* main(): planning locals
    width, height, x_tiles, y_tiles, max_x_sections, max_y_sections,
    workerCount, x_section, y_section,
    x_sectionSize, y_sectionSize, x_sectionCount, y_sectionCount,
    \* main(): result map, loop counters, assembled image
    result, x_task, y_task, workerIdx, rIdx, out,
    \* WorkerPool: mutex owner (0: free), task list
    m_mutex, m_tasks,
    \* worker threads: position, local task, local pixelsLeft, work()'s x and y
    wpc, task, pixelsLeft, wx, wy,
    \* history: executions per task id, completed task ids,
    \* bytes written <<task id, entry key, index>>, source pixels read <<task id, x, y>>
    runCount, finished, writes, srcRead,
    \* work() on a single tile, pixel by pixel (SpecWork)
    tpc, pixels, i, vote, inspected, outvec,
    \* the wall clock in seconds (what std::time(0) returns), the three time statics,
    \* and the reports printed so far, in order
    clock, startTime, lastReport, etaReport, reports

inputVars == <<argc, img>>
globalVars == <<x_factor, y_factor, bandCount, taskPixels, totalPixels>>
tileCountVars == <<width, height, x_tiles, y_tiles, max_x_sections, max_y_sections>>
sectionVars == <<x_section, y_section>>
geometryVars == <<x_sectionSize, y_sectionSize, x_sectionCount, y_sectionCount>>
loopVars == <<x_task, y_task, workerIdx, rIdx>>
poolVars == <<m_mutex, m_tasks>>
threadVars == <<wpc, task, pixelsLeft, wx, wy>>
historyVars == <<runCount, finished, writes, srcRead>>
tileVars == <<tpc, pixels, i, vote, inspected, outvec>>
mainRest == <<exitCode, inputVars, globalVars, tileCountVars, workerCount, sectionVars,
              geometryVars, loopVars, out>>
mainVars == <<pc, result, mainRest>>
timeVars == <<clock, startTime, lastReport, etaReport, reports>>
vars == <<mainVars, poolVars, threadVars, historyVars, tileVars, timeVars>>

NoImage == [width |-> 0, height |-> 0, bands |-> 0, pat |-> 0, cells |-> <<>>]
NoArea == [x |-> 0, y |-> 0, w |-> 0, h |-> 0]
\* a task: the captured area, the captured x_task and y_task (key), and its number in
\* creation order (id, from 1)
NoTask == [id |-> 0, key |-> <<0, 0>>, area |-> NoArea]
EmptyBuffer == [k \in {} |-> 0]
NoOut == [w |-> 0, h |-> 0, data |-> EmptyBuffer]

\* std::vector<unsigned char>::resize(n) on an empty vector: n zero bytes
ZeroBuffer(n) == [k \in 0 .. (n - 1) |-> 0]

\* main()'s locals before they are assigned
PlanInit ==
    /\ taskPixels = 0 /\ totalPixels = 0
    /\ width = 0 /\ height = 0 /\ x_tiles = 0 /\ y_tiles = 0
    /\ max_x_sections = 0 /\ max_y_sections = 0
    /\ workerCount = 0 /\ x_section = 0 /\ y_section = 0
    /\ x_sectionSize = 0 /\ y_sectionSize = 0 /\ x_sectionCount = 0 /\ y_sectionCount = 0
    /\ result = <<>> /\ x_task = 0 /\ y_task = 0 /\ workerIdx = 0 /\ rIdx = 0
    /\ out = NoOut

PoolInit ==
    /\ m_mutex = 0 /\ m_tasks = <<>>
    /\ wpc = <<>> /\ task = <<>> /\ pixelsLeft = <<>> /\ wx = <<>> /\ wy = <<>>
    /\ runCount = <<>> /\ finished = {} /\ writes = {} /\ srcRead = {}

TileIdle ==
    /\ tpc = "idle" /\ pixels = EmptyBuffer /\ i = 0 /\ vote = NoVotes
    /\ inspected = {} /\ outvec = EmptyBuffer

\* the state before main() runs: statics initialised, no locals yet
LocalsInit ==
    /\ pc = "start" /\ exitCode = 0 /\ argc = 0
    /\ PlanInit

\* static initialisation: the three statics read the clock when the process starts
TimeInit ==
    /\ clock = 0 /\ startTime = clock /\ lastReport = clock /\ etaReport = clock
    /\ reports = <<>>

MainInit ==
    /\ LocalsInit
    /\ img = NoImage
    /\ x_factor = 1 /\ y_factor = 1 /\ bandCount = BandCountDefault

Init == MainInit /\ PoolInit /\ TileIdle /\ TimeInit

(***************************************************************************)
(* main(): argument checks and fast path.                                  *)
(***************************************************************************)
ArgcValues == (ArgcNeeded - 1) .. (ArgcNeeded + 1)
\* what atoi can return for argv[1], argv[2]
FactorValues == -1 .. MaxFactor
\* the images new_from_file can return; the band count follows the pattern
Images ==
    {im \in {[width |-> w, height |-> h, bands |-> 1 + (p % MaxBands), pat |-> p,
              cells |-> <<>>] : w \in 1 .. MaxWidth, h \in 1 .. MaxHeight, p \in Patterns} :
        im.width * im.height <= MaxArea}

Exit(code) == pc' = "exit" /\ exitCode' = code

\* VIPS_INIT and the argc check
Start ==
    /\ pc = "start"
    /\ \E initFailed \in BOOLEAN, ac \in ArgcValues :
          /\ argc' = ac
          /\ IF initFailed \/ ac < ArgcNeeded THEN Exit(-1)
             ELSE pc' = "factors" /\ UNCHANGED exitCode
    /\ UNCHANGED <<img, globalVars, tileCountVars, workerCount, sectionVars, geometryVars,
                   result, loopVars, out, poolVars, threadVars, historyVars, tileVars, timeVars>>

\* if (x_factor < 1 || y_factor < 1)
FactorsRejectedByX(fx, fy) == fx < 1
FactorsRejected(fx, fy) == fx < 1 \/ fy < 1

\* x_factor = atoi(argv[1]); y_factor = atoi(argv[2]); reject factors < 1
GetFactors ==
    /\ pc = "factors"
    /\ \E fx \in FactorValues, fy \in FactorValues :
          /\ x_factor' = fx /\ y_factor' = fy
          /\ IF FactorsRejected(fx, fy) THEN Exit(-1)
             ELSE pc' = "open" /\ UNCHANGED exitCode
    /\ UNCHANGED <<inputVars, bandCount, taskPixels, totalPixels, tileCountVars, workerCount,
                   sectionVars, geometryVars, result, loopVars, out, poolVars, threadVars,
                   historyVars, tileVars, timeVars>>

\* open the image, read its band count; with both factors 1 save it and leave
OpenImage ==
    /\ pc = "open"
    /\ \E im \in Images :
          /\ img' = im
          /\ bandCount' = im.bands
          /\ IF x_factor = 1 /\ y_factor = 1
             THEN Exit(0) /\ out' = [w |-> im.width, h |-> im.height,
                                     data |-> AreaData(im, WholeArea(im), im.bands)]
             ELSE pc' = "measure" /\ UNCHANGED <<exitCode, out>>
    /\ UNCHANGED <<argc, x_factor, y_factor, taskPixels, totalPixels, tileCountVars,
                   workerCount, sectionVars, geometryVars, result, loopVars, poolVars,
                   threadVars, historyVars, tileVars, timeVars>>

(***************************************************************************)
(* main(): planning of workers and sections.                               *)
(***************************************************************************)
\* width, height, tile counts, section caps, totalPixels
Measure ==
    /\ pc = "measure"
    /\ width' = img.width /\ height' = img.height
    /\ x_tiles' = img.width \div x_factor
    /\ y_tiles' = img.height \div y_factor
    /\ max_x_sections' = x_factor * x_factor
    /\ max_y_sections' = y_factor * y_factor
    /\ totalPixels' = img.width * img.height
    /\ pc' = "concurrency"
    /\ UNCHANGED <<exitCode, inputVars, x_factor, y_factor, bandCount, taskPixels, workerCount,
                   sectionVars, geometryVars, result, loopVars, out, poolVars, threadVars,
                   historyVars, tileVars, timeVars>>

\* if (workerCount % 2 != 0) workerCount += workerCount % 2
KeepOdd(hc) == hc
RoundToEven(hc) == IF hc % 2 /= 0 THEN hc + (hc % 2) ELSE hc

\* workerCount = hardware_concurrency(), made a multiple of 2; hcs are the values
\* hardware_concurrency() can return
ConcurrencyOf(hcs) ==
    /\ pc = "concurrency"
    /\ \E hc \in hcs : workerCount' = RoundToEven(hc)
    /\ pc' = "cut"
    /\ UNCHANGED <<exitCode, inputVars, globalVars, tileCountVars, sectionVars, geometryVars,
                   result, loopVars, out, poolVars, threadVars, historyVars, tileVars, timeVars>>

Concurrency == ConcurrencyOf(0 .. MaxHC)

\* while (workerCount > x_tiles || workerCount > y_tiles) workerCount -= 2
CutWorkers ==
    /\ pc = "cut"
    /\ IF UGt(workerCount, x_tiles) \/ UGt(workerCount, y_tiles)
       THEN workerCount' = workerCount - 2 /\ pc' = "cut"
       ELSE pc' = "clamp" /\ UNCHANGED workerCount
    /\ UNCHANGED <<exitCode, inputVars, globalVars, tileCountVars, sectionVars, geometryVars,
                   result, loopVars, out, poolVars, threadVars, historyVars, tileVars, timeVars>>

\* if (0 == workerCount) workerCount = 1
KeepZeroWorkers(wc) == wc
BringBackOne(wc) == IF 0 = wc THEN 1 ELSE wc

ClampWorkers ==
    /\ pc = "clamp"
    /\ workerCount' = BringBackOne(workerCount)
    /\ pc' = "sections"
    /\ UNCHANGED <<exitCode, inputVars, globalVars, tileCountVars, sectionVars, geometryVars,
                   result, loopVars, out, poolVars, threadVars, historyVars, tileVars, timeVars>>

\* unsigned division; a zero divisor is undefined: the build either traps or
\* (division instructions that do not trap) yields 0
DivOutcomes(a, b) ==
    IF b = 0 THEN {[trap |-> TRUE, q |-> 0], [trap |-> FALSE, q |-> 0]}
    ELSE {[trap |-> FALSE, q |-> UDiv(a, b)]}

\* x_section = x_tiles / workerCount; y_section = y_tiles / workerCount
Sections ==
    /\ pc = "sections"
    /\ \E qx \in DivOutcomes(x_tiles, workerCount), qy \in DivOutcomes(y_tiles, workerCount) :
          IF qx.trap \/ qy.trap
          THEN pc' = "crashed" /\ UNCHANGED sectionVars
          ELSE x_section' = qx.q /\ y_section' = qy.q /\ pc' = "halve_x"
    /\ UNCHANGED <<exitCode, inputVars, globalVars, tileCountVars, workerCount, geometryVars,
                   result, loopVars, out, poolVars, threadVars, historyVars, tileVars, timeVars>>

\* x_section > max_x_sections, y_section > max_y_sections
AtOrAboveCap(section, cap) == ~ULt(section, cap)
AboveCap(section, cap) == UGt(section, cap)

\* while (x_section > max_x_sections) x_section /= 2
HalveX ==
    /\ pc = "halve_x"
    /\ IF AboveCap(x_section, max_x_sections)
       THEN x_section' = UDiv(x_section, 2) /\ pc' = "halve_x"
       ELSE pc' = "halve_y" /\ UNCHANGED x_section
    /\ UNCHANGED <<exitCode, inputVars, globalVars, tileCountVars, workerCount, y_section,
                   geometryVars, result, loopVars, out, poolVars, threadVars, historyVars,
                   tileVars, timeVars>>

\* while (y_section > max_y_sections) y_section /= 2
HalveY ==
    /\ pc = "halve_y"
    /\ IF AboveCap(y_section, max_y_sections)
       THEN y_section' = UDiv(y_section, 2) /\ pc' = "halve_y"
       ELSE pc' = "geometry" /\ UNCHANGED y_section
    /\ UNCHANGED <<exitCode, inputVars, globalVars, tileCountVars, workerCount, x_section,
                   geometryVars, result, loopVars, out, poolVars, threadVars, historyVars,
                   tileVars, timeVars>>


\* section sizes in pixels, section counts, taskPixels
Geometry ==
    /\ pc = "geometry"
    /\ LET xs == x_section * x_factor
           ys == y_section * y_factor
       IN  /\ x_sectionSize' = xs /\ y_sectionSize' = ys
           /\ \E qx \in DivOutcomes(width, xs), qy \in DivOutcomes(height, ys) :
                 IF qx.trap \/ qy.trap
                 THEN /\ pc' = "crashed"
                      /\ UNCHANGED <<x_sectionCount, y_sectionCount, taskPixels>>
                 ELSE /\ x_sectionCount' = qx.q /\ y_sectionCount' = qy.q
                      /\ taskPixels' = xs * ys
                      /\ pc' = "alloc"
    /\ UNCHANGED <<exitCode, inputVars, x_factor, y_factor, bandCount, totalPixels,
                   tileCountVars, workerCount, sectionVars, result, loopVars, out, poolVars,
                   threadVars, historyVars, tileVars, timeVars>>

\* the keys of the result map: one per section of the grid
SectionKeys == (0 .. x_sectionCount - 1) \X (0 .. y_sectionCount - 1)

\* result[(x_task, y_task)].resize(x_section * y_section * bandCount), for every section
Allocate ==
    /\ pc = "alloc"
    /\ result' = [k \in SectionKeys |-> ZeroBuffer(x_section * y_section * bandCount)]
    /\ x_task' = 0 /\ y_task' = 0
    /\ pc' = "create"
    /\ UNCHANGED <<exitCode, inputVars, globalVars, tileCountVars, workerCount, sectionVars,
                   geometryVars, workerIdx, rIdx, out, poolVars, threadVars, historyVars,
                   tileVars, timeVars>>

\* left edge / top edge of section x_task / y_task in the image
SectionLeftByTiles(xt) == xt * x_section
SectionLeft(xt) == xt * x_sectionSize
SectionTop(yt) == yt * y_sectionSize

\* the result entry the task's lambda names: result[pair(x_task, y_task)]
TaskKeyOfColumn(xt, yt) == <<xt, 0>>
TaskKey(xt, yt) == <<xt, yt>>

\* WorkerPool::PushTask
PushTask(t) == m_tasks' = Append(m_tasks, t)

\* one iteration of the task creation loops: extract the section, push its task
CreateTask ==
    /\ pc = "create"
    /\ IF x_task < x_sectionCount /\ y_task < y_sectionCount
       THEN IF ExtractOK(WholeArea(img), SectionLeft(x_task), SectionTop(y_task),
                         x_sectionSize, y_sectionSize)
            THEN /\ PushTask([id |-> Len(m_tasks) + 1,
                              key |-> TaskKey(x_task, y_task),
                              area |-> extract_area(WholeArea(img), SectionLeft(x_task),
                                                    SectionTop(y_task),
                                                    x_sectionSize, y_sectionSize)])
                 /\ runCount' = Append(runCount, 0)
                 /\ IF y_task + 1 < y_sectionCount
                    THEN y_task' = y_task + 1 /\ UNCHANGED x_task
                    ELSE y_task' = 0 /\ x_task' = x_task + 1
                 /\ pc' = "create"
            ELSE \* extract_area throws, nothing catches it
                 pc' = "crashed" /\ UNCHANGED <<m_tasks, x_task, y_task, runCount>>
       ELSE pc' = "resize" /\ UNCHANGED <<m_tasks, x_task, y_task, runCount>>
    /\ UNCHANGED <<exitCode, inputVars, globalVars, tileCountVars, workerCount, sectionVars,
                   geometryVars, result, workerIdx, rIdx, out, m_mutex, threadVars,
                   finished, writes, srcRead, tileVars, timeVars>>

(***************************************************************************)
(* main(): spawn, join.                                                    *)
(***************************************************************************)
Workers == 1 .. workerCount

\* workers.resize(workerCount): thread objects without a thread; a count from 2^31 on
\* cannot be allocated and resize throws
ResizeWorkers ==
    /\ pc = "resize"
    /\ wpc' = [w \in Workers |-> "unborn"]
    /\ task' = [w \in Workers |-> NoTask]
    /\ pixelsLeft' = [w \in Workers |-> 0]
    /\ wx' = [w \in Workers |-> 0]
    /\ wy' = [w \in Workers |-> 0]
    /\ workerIdx' = 0
    /\ pc' = IF workerCount >= 0 THEN "spawn" ELSE "crashed"
    /\ UNCHANGED <<exitCode, inputVars, globalVars, tileCountVars, workerCount, sectionVars,
                   geometryVars, result, x_task, y_task, rIdx, out, poolVars, historyVars,
                   tileVars, timeVars>>

\* workers[i] = std::thread(&WorkerPool::Worker, &pool)
SpawnWorker ==
    /\ pc = "spawn"
    /\ IF ULt(workerIdx, workerCount)
       THEN /\ wpc' = [wpc EXCEPT ![workerIdx + 1] = "lock"]
            /\ workerIdx' = workerIdx + 1
            /\ pc' = "spawn"
       ELSE /\ workerIdx' = 0
            /\ pc' = "join"
            /\ UNCHANGED wpc
    /\ UNCHANGED <<exitCode, inputVars, globalVars, tileCountVars, workerCount, sectionVars,
                   geometryVars, result, x_task, y_task, rIdx, out, poolVars, task, pixelsLeft,
                   wx, wy, historyVars, tileVars, timeVars>>

\* join() returns once the thread has finished
JoinedWithoutWaiting(w) == TRUE
Joined(w) == wpc[w] = "done"

\* workers[i].join()
JoinWorker ==
    /\ pc = "join"
    /\ IF ULt(workerIdx, workerCount)
       THEN /\ Joined(workerIdx + 1)
            /\ workerIdx' = workerIdx + 1
            /\ pc' = "join"
       ELSE /\ pc' = "prepare"
            /\ UNCHANGED workerIdx
    /\ UNCHANGED <<exitCode, inputVars, globalVars, tileCountVars, workerCount, sectionVars,
                   geometryVars, result, x_task, y_task, rIdx, out, poolVars, threadVars,
                   historyVars, tileVars, timeVars>>

(***************************************************************************)
(* main(): assembly.                                                       *)
(***************************************************************************)
\* width and height given to new_from_memory for the final image
OutWidthOfSections == x_sectionCount * x_section
OutWidth == x_tiles
OutHeight == y_tiles

\* outBuffer.resize(x_tiles * y_tiles * bandCount); out = new_from_memory(...)
PrepareOut ==
    /\ pc = "prepare"
    /\ out' = [w |-> OutWidth, h |-> OutHeight,
               data |-> ZeroBuffer(x_tiles * y_tiles * bandCount)]
    /\ rIdx' = 0
    /\ pc' = "insert"
    /\ UNCHANGED <<exitCode, inputVars, globalVars, tileCountVars, workerCount, sectionVars,
                   geometryVars, result, x_task, y_task, workerIdx, poolVars, threadVars,
                   historyVars, tileVars, timeVars>>

\* main.insert(sub, x, y): sub pasted over main at (x, y), clipped to main
Insert(o, blk, px, py, bands) ==
    [o EXCEPT !.data =
        [k \in DOMAIN o.data |->
            LET ox == (k \div bands) % o.w
                oy == (k \div bands) \div o.w
            IN  IF /\ ox >= px /\ ox < px + blk.w
                   /\ oy >= py /\ oy < py + blk.h
                THEN blk.data[((oy - py) * blk.w + (ox - px)) * bands + (k % bands)]
                ELSE o.data[k]]]

\* the rIdx-th key of the result map (std::map iterates pairs in lexicographic order)
ResultKey(n) == <<n \div y_sectionCount, n % y_sectionCount>>

\* position of a section's block in the final image
BlockLeftInPixels(key) == key[1] * x_sectionSize
BlockLeft(key) == key[1] * x_section
BlockTop(key) == key[2] * y_section

\* one iteration of the loop over the result map: place the block
InsertBlock ==
    /\ pc = "insert"
    /\ IF rIdx < Cardinality(DOMAIN result)
       THEN LET key == ResultKey(rIdx)
                block == [w |-> x_section, h |-> y_section, data |-> result[key]]
            IN  /\ out' = Insert(out, block, BlockLeft(key), BlockTop(key), bandCount)
                /\ rIdx' = rIdx + 1
                /\ pc' = "insert"
       ELSE pc' = "save" /\ UNCHANGED <<out, rIdx>>
    /\ UNCHANGED <<exitCode, inputVars, globalVars, tileCountVars, workerCount, sectionVars,
                   geometryVars, result, x_task, y_task, workerIdx, poolVars, threadVars,
                   historyVars, tileVars, timeVars>>

\* pngsave writes an image that has pixels; for an image of width or height 0 it throws
Saveable(o) == o.w > 0 /\ o.h > 0

\* out.pngsave, vips_shutdown
Save ==
    /\ pc = "save"
    /\ IF Saveable(out)
       THEN pc' = "saved" /\ exitCode' = 0
       ELSE pc' = "crashed" /\ UNCHANGED exitCode
    /\ UNCHANGED <<inputVars, globalVars, tileCountVars, workerCount, sectionVars, geometryVars,
                   result, loopVars, out, poolVars, threadVars, historyVars, tileVars, timeVars>>

(***************************************************************************)
(* The progress reports.                                                   *)
(***************************************************************************)
\* std::time(0) - lastReport < 5, std::time(0) - etaReport < 5
TooSoonBelowPeriod(now, last) == now - last < ReportPeriod - 1
TooSoon(now, last) == now - last < ReportPeriod

\* what ReportElapsedTime prints: the time elapsed at the moment lastReport was set
ElapsedReport(now) == [kind |-> "elapsed", at |-> now, elapsed |-> now - startTime]

\* static_cast<unsigned int> of a double that is infinite or not a number is undefined:
\* the conversion instruction yields 0 or the largest value
UndefinedEta == {0, -1}

\* eta = (unsigned int)(pixelsLeft / perSecond), perSecond = done / elapsed in doubles,
\* done the unsigned totalPixels - pixelsLeft
EtaOutcomes(left, done, elapsed) ==
    IF done = 0 THEN UndefinedEta
    ELSE IF elapsed = 0 \/ done < 0 THEN {0}
    ELSE {(left * elapsed) \div done}

\* what EstimateTimeLeft computes and prints
EtaReport(now, left, eta) ==
    [kind |-> "eta", at |-> now, elapsed |-> now - startTime, left |-> left,
     done |-> totalPixels - left, eta |-> eta]

\* the last ReportElapsedTime of main(), and return 0
FinalReport ==
    /\ pc = "saved"
    /\ IF TooSoon(clock, lastReport)
       THEN UNCHANGED <<lastReport, reports>>
       ELSE /\ lastReport' = clock
            /\ reports' = Append(reports, ElapsedReport(clock))
    /\ Exit(0)
    /\ UNCHANGED <<inputVars, globalVars, tileCountVars, workerCount, sectionVars, geometryVars,
                   result, loopVars, out, poolVars, threadVars, historyVars, tileVars,
                   clock, startTime, etaReport>>

(***************************************************************************)
(* WorkerPool::Worker, run by each worker thread.                          *)
(***************************************************************************)
\* the process is running: worker threads take steps
Running == pc \in {"spawn", "join", "prepare", "insert", "save"}

\* std::mutex::lock() returns when no thread owns the mutex
MutexIgnored == TRUE
MutexFree == m_mutex = 0

\* the mutex after w locks it: owned by w
OwnedByNone(w) == 0
OwnedBy(w) == w

\* unique_lock's constructor, and lock.lock() after a task
Lock(w) ==
    /\ Running /\ wpc[w] = "lock"
    /\ MutexFree
    /\ m_mutex' = OwnedBy(w)
    /\ wpc' = [wpc EXCEPT ![w] = "test"]
    /\ UNCHANGED <<mainVars, m_tasks, task, pixelsLeft, wx, wy, historyVars, tileVars, timeVars>>

\* the mutex after its owner w unlocks it: owned by no thread
KeptBy(w) == w
ReleasedBy(w) == 0

\* while (!m_tasks.empty()); on exit the unique_lock releases the mutex
TestQueue(w) ==
    /\ Running /\ wpc[w] = "test"
    /\ IF m_tasks /= <<>>
       THEN wpc' = [wpc EXCEPT ![w] = "measure"] /\ UNCHANGED m_mutex
       ELSE wpc' = [wpc EXCEPT ![w] = "done"] /\ m_mutex' = ReleasedBy(w)
    /\ UNCHANGED <<mainVars, m_tasks, task, pixelsLeft, wx, wy, historyVars, tileVars, timeVars>>

\* pixelsLeft = m_tasks.size() * taskPixels
MeasureQueue(w) ==
    /\ Running /\ wpc[w] = "measure"
    /\ pixelsLeft' = [pixelsLeft EXCEPT ![w] = Len(m_tasks) * taskPixels]
    /\ wpc' = [wpc EXCEPT ![w] = "report"]
    /\ UNCHANGED <<mainVars, poolVars, task, wx, wy, historyVars, tileVars, timeVars>>

\* ReportElapsedTime() called by a worker: the rate limit ("report"), and past it
\* lastReport = std::time(0) and the print ("report_set")
ReportElapsedTime(w) ==
    /\ Running /\ wpc[w] \in {"report", "report_set"}
    /\ IF wpc[w] = "report"
       THEN /\ wpc' = [wpc EXCEPT ![w] = IF TooSoon(clock, lastReport)
                                         THEN "eta" ELSE "report_set"]
            /\ UNCHANGED <<lastReport, reports>>
       ELSE /\ lastReport' = clock
            /\ reports' = Append(reports, ElapsedReport(clock))
            /\ wpc' = [wpc EXCEPT ![w] = "eta"]
    /\ UNCHANGED <<mainVars, poolVars, task, pixelsLeft, wx, wy, historyVars, tileVars,
                   clock, startTime, etaReport>>

\* EstimateTimeLeft(pixelsLeft) called by a worker: the rate limit ("eta"), and past it
\* etaReport = std::time(0), the estimate and the print ("eta_set")
EstimateTimeLeft(w) ==
    /\ Running /\ wpc[w] \in {"eta", "eta_set"}
    /\ IF wpc[w] = "eta"
       THEN /\ wpc' = [wpc EXCEPT ![w] = IF TooSoon(clock, etaReport)
                                         THEN "front" ELSE "eta_set"]
            /\ UNCHANGED <<etaReport, reports>>
       ELSE /\ etaReport' = clock
            /\ \E eta \in EtaOutcomes(pixelsLeft[w], totalPixels - pixelsLeft[w],
                                      clock - startTime) :
                  reports' = Append(reports, EtaReport(clock, pixelsLeft[w], eta))
            /\ wpc' = [wpc EXCEPT ![w] = "front"]
    /\ UNCHANGED <<mainVars, poolVars, task, pixelsLeft, wx, wy, historyVars, tileVars,
                   clock, startTime, lastReport>>

\* Task task = m_tasks.front(); front() of an empty list is undefined
Front(w) ==
    /\ Running /\ wpc[w] = "front"
    /\ IF m_tasks /= <<>>
       THEN /\ task' = [task EXCEPT ![w] = Head(m_tasks)]
            /\ wpc' = [wpc EXCEPT ![w] = "pop"]
            /\ UNCHANGED pc
       ELSE pc' = "crashed" /\ UNCHANGED <<task, wpc>>
    /\ UNCHANGED <<result, mainRest, poolVars, pixelsLeft, wx, wy, historyVars, tileVars, timeVars>>

\* m_tasks.pop_front()
PopFront(q) == IF q /= <<>> THEN Tail(q) ELSE q

\* pop_front, lock.unlock(), and the call task() entering work()
Pop(w) ==
    /\ Running /\ wpc[w] = "pop"
    /\ m_tasks' = PopFront(m_tasks)
    /\ m_mutex' = ReleasedBy(w)
    /\ wx' = [wx EXCEPT ![w] = 0]
    /\ wy' = [wy EXCEPT ![w] = 0]
    /\ runCount' = [runCount EXCEPT ![task[w].id] = @ + 1]
    /\ wpc' = [wpc EXCEPT ![w] = "run"]
    /\ UNCHANGED <<mainVars, task, pixelsLeft, finished, writes, srcRead, tileVars, timeVars>>

\* the bytes a tile's dominant colour is painted into
PaintedIndices(x, y, xt, yt, bands) == {OutIndex(x, y, xt, yt, bands, b) : b \in 0 .. bands - 1}

\* out after painting tile (x, y) with dominant; indices outside out are not part of it
Paint(buf, dominant, x, y, xt, yt, bands) ==
    [k \in DOMAIN buf |->
        IF \E b \in 0 .. bands - 1 : k = OutIndex(x, y, xt, yt, bands, b)
        THEN UnpackBand(dominant, bands,
                        CHOOSE b \in 0 .. bands - 1 : k = OutIndex(x, y, xt, yt, bands, b))
        ELSE buf[k]]

\* work(): one iteration of the tile loops (x outer, y inner), or the return.
\* A write outside the out vector is undefined: the process traps, or the stray
\* write lands outside the vector.
WorkTile(w) ==
    /\ Running /\ wpc[w] = "run"
    /\ LET a == task[w].area
           key == task[w].key
           xt == a.w \div x_factor
           yt == a.h \div y_factor
           size == TileSize(x_factor, y_factor)
           left == wx[w] * x_factor
           top == wy[w] * y_factor
       IN  IF wx[w] < xt /\ wy[w] < yt
           THEN IF ExtractOK(a, left, top, x_factor, y_factor)
                THEN LET tile == extract_area(a, left, top, x_factor, y_factor)
                         dominant == Reduce(AreaData(img, tile, bandCount), size, bandCount)
                         idx == PaintedIndices(wx[w], wy[w], xt, yt, bandCount)
                         inside == key \in DOMAIN result /\ idx \subseteq DOMAIN result[key]
                     IN  /\ srcRead' = srcRead \cup
                                          {<<task[w].id, q[1], q[2]>> : q \in AreaPixels(tile)}
                         /\ writes' = writes \cup {<<task[w].id, key, k>> : k \in idx}
                         /\ \E trap \in (IF inside THEN {FALSE} ELSE BOOLEAN) :
                               IF trap
                               THEN pc' = "crashed" /\ UNCHANGED <<result, wx, wy>>
                               ELSE /\ result' = IF key \in DOMAIN result
                                                 THEN [result EXCEPT ![key] =
                                                          Paint(@, dominant, wx[w], wy[w],
                                                                xt, yt, bandCount)]
                                                 ELSE result
                                    /\ IF wy[w] + 1 < yt
                                       THEN /\ wy' = [wy EXCEPT ![w] = @ + 1]
                                            /\ UNCHANGED wx
                                       ELSE /\ wy' = [wy EXCEPT ![w] = 0]
                                            /\ wx' = [wx EXCEPT ![w] = @ + 1]
                                    /\ UNCHANGED pc
                         /\ UNCHANGED <<wpc, finished>>
                ELSE /\ pc' = "crashed"
                     /\ UNCHANGED <<result, wx, wy, wpc, finished, writes, srcRead>>
           ELSE /\ finished' = finished \cup {task[w].id}
                /\ wpc' = [wpc EXCEPT ![w] = "lock"]
                /\ UNCHANGED <<pc, result, wx, wy, writes, srcRead>>
    /\ UNCHANGED <<mainRest, poolVars, task, pixelsLeft, runCount, tileVars, timeVars>>

Worker(w) ==
    \/ Lock(w)
    \/ TestQueue(w)
    \/ MeasureQueue(w)
    \/ ReportElapsedTime(w)
    \/ EstimateTimeLeft(w)
    \/ Front(w)
    \/ Pop(w)
    \/ WorkTile(w)

Next ==
    \/ Start
    \/ GetFactors
    \/ OpenImage
    \/ Measure
    \/ Concurrency
    \/ CutWorkers
    \/ ClampWorkers
    \/ Sections
    \/ HalveX
    \/ HalveY
    \/ Geometry
    \/ Allocate
    \/ CreateTask
    \/ ResizeWorkers
    \/ SpawnWorker
    \/ JoinWorker
    \/ PrepareOut
    \/ InsertBlock
    \/ Save
    \/ FinalReport
    \/ \E w \in DOMAIN wpc : Worker(w)

Spec == Init /\ [][Next]_vars

(***************************************************************************)
(* SpecReport: the program from the opened image on, with the clock        *)
(* running.  In Spec the clock stands still (the whole run takes less than *)
(* a second), so no report passes its rate limit; here seconds pass        *)
(* between the steps.  The images     are small and of one pattern: the    *)
(* reports depend on the pixel counts only.                                *)
(***************************************************************************)
ReportImages ==
    {im \in Images : /\ im.pat = 1
                     /\ im.height <= MaxReportHeight
                     /\ im.width * im.height <= MaxReportArea}
ReportFactors == {f \in (1 .. MaxFactor) \X (1 .. MaxFactor) : f /= <<1, 1>>}

\* the state in which main() has opened the image and read its band count
InitReport ==
    /\ PoolInit /\ TileIdle /\ TimeInit
    /\ pc = "measure" /\ exitCode = 0 /\ argc = ArgcNeeded
    /\ \E f \in ReportFactors : x_factor = f[1] /\ y_factor = f[2]
    /\ \E im \in ReportImages : img = im /\ bandCount = im.bands
    /\ PlanInit

\* a thread is about to call std::time(0)
ReadsClock ==
    \/ pc = "saved"
    \/ /\ Running
       /\ \E w \in DOMAIN wpc : wpc[w] \in {"report", "report_set", "eta", "eta_set"}

\* a second passes.  Only the report functions read the clock, so the seconds that
\* pass are counted when a thread is about to read it.
Tick ==
    /\ ReadsClock
    /\ clock < MaxClock
    /\ clock' = clock + 1
    /\ UNCHANGED <<mainVars, poolVars, threadVars, historyVars, tileVars, startTime,
                   lastReport, etaReport, reports>>

\* the steps of the program from the opened image on
Run ==
    \/ Measure
    \/ Concurrency
    \/ CutWorkers
    \/ ClampWorkers
    \/ Sections
    \/ HalveX
    \/ HalveY
    \/ Geometry
    \/ Allocate
    \/ CreateTask
    \/ ResizeWorkers
    \/ SpawnWorker
    \/ JoinWorker
    \/ PrepareOut
    \/ InsertBlock
    \/ Save
    \/ FinalReport
    \/ \E w \in DOMAIN wpc : Worker(w)

NextReport == Tick \/ Run

SpecReport == InitReport /\ [][NextReport]_vars

(***************************************************************************)
(* SpecFair: the program from the opened image on, the clock standing      *)
(* still, with the scheduling the threads get: main() goes on spawning and *)
(* joining, and while some worker thread is able to take a step a worker   *)
(* step is taken.  Nothing is assumed about which waiting thread gets the  *)
(* mutex (std::mutex promises no order), so the fairness is weak.          *)
(***************************************************************************)
\* a step of some worker thread
WorkerStep == \E w \in DOMAIN wpc : Worker(w)

Fairness ==
    /\ WF_vars(SpawnWorker \/ JoinWorker)
    /\ WF_vars(WorkerStep)

SpecFair == InitReport /\ [][Run]_vars /\ Fairness

(***************************************************************************)
(* SpecPlan: the planning of workers and sections in main(), from the      *)
(* opened image to the section counts, for images of up to MaxPlanSide by  *)
(* MaxPlanSide pixels and hardware_concurrency() up to MaxPlanHC.  The     *)
(* planning reads the image's width and height only.  main() is a running  *)
(* thread: while it can take a step it takes one.                          *)
(***************************************************************************)
PlanImages ==
    {[width |-> w, height |-> h, bands |-> 1 + (1 % MaxBands), pat |-> 1, cells |-> <<>>] :
        w \in 1 .. MaxPlanSide, h \in 1 .. MaxPlanSide}

InitPlan ==
    /\ PoolInit /\ TileIdle /\ TimeInit
    /\ pc = "measure" /\ exitCode = 0 /\ argc = ArgcNeeded
    /\ \E f \in ReportFactors : x_factor = f[1] /\ y_factor = f[2]
    /\ \E im \in PlanImages : img = im /\ bandCount = im.bands
    /\ PlanInit

PlanConcurrency == ConcurrencyOf(0 .. MaxPlanHC)

NextPlan ==
    \/ Measure
    \/ PlanConcurrency
    \/ CutWorkers
    \/ ClampWorkers
    \/ Sections
    \/ HalveX
    \/ HalveY
    \/ Geometry

SpecPlan == InitPlan /\ [][NextPlan]_vars /\ WF_vars(NextPlan)

(***************************************************************************)
(* SpecWork: work() on an image that is one tile (width = x_factor,        *)
(* height = y_factor, so x_tiles = y_tiles = 1), the pixel loop taken one  *)
(* iteration at a time, over every tile of up to MaxTileSize pixels drawn  *)
(* from MaxColour + 1 colours.                                             *)
(***************************************************************************)
TileFactors ==
    {f \in (1 .. MaxTileSize) \X (1 .. MaxTileSize) : f[1] * f[2] >= 2 /\ f[1] * f[2] <= MaxTileSize}

TileImages(f) ==
    {[width |-> f[1], height |-> f[2], bands |-> b, pat |-> -1, cells |-> c] :
        b \in 1 .. MaxBands, c \in [1 .. f[1] * f[2] -> 0 .. MaxColour]}

InitWork ==
    /\ LocalsInit /\ PoolInit /\ TimeInit
    /\ \E f \in TileFactors :
          /\ x_factor = f[1] /\ y_factor = f[2]
          /\ \E im \in TileImages(f) : img = im /\ bandCount = im.bands
    /\ tpc = "begin" /\ pixels = EmptyBuffer /\ i = 0 /\ vote = NoVotes
    /\ inspected = {} /\ outvec = ZeroBuffer(bandCount)

\* extract the tile, get its pixel data, start with no votes
TileBegin ==
    /\ tpc = "begin"
    /\ pixels' = AreaData(img, extract_area(WholeArea(img), 0, 0, x_factor, y_factor), bandCount)
    /\ vote' = NoVotes
    /\ i' = 0
    /\ tpc' = "scan"
    /\ UNCHANGED <<mainVars, poolVars, threadVars, historyVars, timeVars, inspected, outvec>>

\* one iteration of for (i = 0; i < size; ++i), or the loop's end
ScanPixel ==
    /\ tpc = "scan"
    /\ IF i < TileSize(x_factor, y_factor)
       THEN LET v == Vote(vote, PackColor(pixels, i, bandCount),
                          Win(TileSize(x_factor, y_factor)))
            IN  /\ vote' = v
                /\ inspected' = inspected \cup {i}
                /\ IF v.brk THEN tpc' = "paint" /\ UNCHANGED i
                   ELSE i' = i + 1 /\ UNCHANGED tpc
       ELSE tpc' = "paint" /\ UNCHANGED <<vote, inspected, i>>
    /\ UNCHANGED <<mainVars, poolVars, threadVars, historyVars, timeVars, pixels, outvec>>

\* paint the only tile of the out vector with the dominant colour
PaintTile ==
    /\ tpc = "paint"
    /\ outvec' = Paint(outvec, vote.dominant, 0, 0, 1, 1, bandCount)
    /\ tpc' = "painted"
    /\ UNCHANGED <<mainVars, poolVars, threadVars, historyVars, timeVars, pixels, i, vote, inspected>>

NextWork ==
    \/ TileBegin
    \/ ScanPixel
    \/ PaintTile

SpecWork == InitWork /\ [][NextWork]_vars

(***************************************************************************)
(* SpecPack: the colour key of one pixel.  work() packs the bandCount band *)
(* samples of pixel i of a tile's data into an unsigned int and unpacks the *)
(* dominant key into the bands of an output pixel; here the key of pixel i *)
(* of a two-pixel tile is packed and then unpacked, for 1 to 4 bands and   *)
(* band samples drawn from bytes spread over 0 .. 255.                     *)
(***************************************************************************)
\* the byte values the samples are drawn from: 0, 85, 170, 255 for MaxSample = 3
SampleByte(n) == (n * ((ByteMod - 1) \div MaxSample)) % ByteMod
ByteSamples == {SampleByte(n) : n \in 0 .. MaxSample}

\* the pixels of bands bands
SamplePixels(bands) == [0 .. bands - 1 -> ByteSamples]

\* the data of a tile of two pixels: pixel at holds the samples of q, the other pixel is
\* all ones
TileOfPixel(q, at, bands) ==
    [k \in 0 .. 2 * bands - 1 |-> IF k \div bands = at THEN q[k % bands] ELSE ByteMod - 1]

InitPack ==
    /\ LocalsInit /\ PoolInit /\ TimeInit
    /\ img = NoImage /\ x_factor = 2 /\ y_factor = 1
    /\ bandCount \in 1 .. UIntBytes
    /\ i \in 0 .. 1
    /\ \E q \in SamplePixels(bandCount) : pixels = TileOfPixel(q, i, bandCount)
    /\ tpc = "pack" /\ vote = NoVotes /\ inspected = {}
    /\ outvec = ZeroBuffer(bandCount)

\* the inner loop over b that builds color from the samples of pixel i
PackPixel ==
    /\ tpc = "pack"
    /\ vote' = [vote EXCEPT !.dominant = PackColor(pixels, i, bandCount)]
    /\ tpc' = "unpack"
    /\ UNCHANGED <<mainVars, poolVars, threadVars, historyVars, timeVars, pixels, i,
                   inspected, outvec>>

\* the loop over b that paints the output pixel from the key
UnpackKey ==
    /\ tpc = "unpack"
    /\ outvec' = Paint(outvec, vote.dominant, 0, 0, 1, 1, bandCount)
    /\ tpc' = "unpacked"
    /\ UNCHANGED <<mainVars, poolVars, threadVars, historyVars, timeVars, pixels, i, vote,
                   inspected>>

NextPack ==
    \/ PackPixel
    \/ UnpackKey

SpecPack == InitPack /\ [][NextPack]_vars

(***************************************************************************)
(* Properties of the tile vote (SpecWork).  They are stated on the colour  *)
(* indices of the tile's pixels, not on the vote's own variables.          *)
(***************************************************************************)
Colours == 0 .. MaxColour
TilePositions == 0 .. (x_factor * y_factor - 1)

\* colour index of the pixel at scan position k (row-major in the tile)
TileColour(k) == img.cells[k + 1]

\* occurrences of colour c among the first n scan positions, and in the whole tile
PrefixCount(c, n) == Cardinality({k \in 0 .. n - 1 : TileColour(k) = c})
TileCount(c) == PrefixCount(c, x_factor * y_factor)

\* the scan position at which colour c reaches count m (its m-th occurrence)
ReachPos(c, m) == CHOOSE k \in TilePositions : TileColour(k) = c /\ PrefixCount(c, k + 1) = m

\* the colour key w stands for colour c
IsColour(w, c) == \A b \in 0 .. bandCount - 1 : UnpackBand(w, bandCount, b) = PaletteByte(c, b)

\* the out vector holds colour c
Painted(c) == \A b \in 0 .. bandCount - 1 : outvec[b] = PaletteByte(c, b)

\* C1 (as claimed): the colour written for a tile occurs in the tile at least as often
\* as every other colour, for every tile size >= 2, also after an early exit.
C1_WrittenColourIsMaximal ==
    (tpc = "painted" /\ x_factor * y_factor >= 2) =>
        \E c \in Colours :
            /\ Painted(c)
            /\ \A d \in Colours : TileCount(d) <= TileCount(c)

\* the first colour to reach count m among the first n scan positions
FirstToReach(m, n) ==
    CHOOSE c \in Colours :
        /\ PrefixCount(c, n) >= m
        /\ \A d \in Colours : PrefixCount(d, n) >= m => ReachPos(c, m) <= ReachPos(d, m)

MaxPrefixCount(n) ==
    CHOOSE m \in 0 .. n : (\E c \in Colours : PrefixCount(c, n) = m)
                          /\ (\A c \in Colours : PrefixCount(c, n) <= m)

TiedColours == {c \in Colours : TileCount(c) = MaxPrefixCount(x_factor * y_factor)}

\* C2: when two or more colours end with the same maximal count in the tile, the colour
\* written is the one that reached that count first in scan order; and at every point of
\* the scan the dominant is the first colour to have reached the leading count among the
\* pixels inspected so far (a later colour reaching the same count does not replace it).
C2_FirstToReachWinsTies ==
    /\ (tpc \in {"scan", "paint", "painted"} /\ inspected /= {}) =>
          LET n == Cardinality(inspected)
          IN  /\ vote.domCount = MaxPrefixCount(n)
              /\ IsColour(vote.dominant, FirstToReach(MaxPrefixCount(n), n))
    /\ (tpc = "painted" /\ Cardinality(TiedColours) >= 2) =>
          Painted(FirstToReach(MaxPrefixCount(x_factor * y_factor), x_factor * y_factor))

\* a tile of two colours, two pixels each, first colour first: [A, A, B, B] gives A;
\* and a tie in which the written colour is not the first colour of the tile
C2_Witness ==
    /\ tpc = "painted"
    /\ x_factor * y_factor = 4
    /\ Cardinality(TiedColours) = 2
    /\ TileColour(0) = TileColour(1) /\ TileColour(2) = TileColour(3)
    /\ TileColour(0) /= TileColour(2)
    /\ Painted(TileColour(0))

\* the first scan position at which some colour's running count reaches win = size / 2
WinReached(k) == PrefixCount(TileColour(k), k + 1) >= (x_factor * y_factor) \div 2
HasWinPos == \E k \in TilePositions : WinReached(k)
WinPos == CHOOSE k \in TilePositions : WinReached(k) /\ \A j \in 0 .. k - 1 : ~WinReached(j)

\* the tiles that agree with the tile on scan positions 0 .. p
AgreeingTiles(p) ==
    {[img EXCEPT !.cells = [k \in 1 .. x_factor * y_factor |->
                               IF k <= p + 1 THEN img.cells[k] ELSE rest[k]]] :
        rest \in [(p + 2) .. (x_factor * y_factor) -> Colours]}

\* C3: once a colour's running count reaches win at scan position p, that colour is
\* written, no pixel after p is inspected, and every tile that agrees on positions 0 .. p
\* reduces to the same colour key.
C3_EarlyExitIgnoresRest ==
    (tpc = "painted" /\ HasWinPos) =>
        /\ Painted(TileColour(WinPos))
        /\ inspected = 0 .. WinPos
        /\ \A other \in AgreeingTiles(WinPos) :
              Reduce(AreaData(other, WholeArea(other), bandCount),
                     x_factor * y_factor, bandCount) = vote.dominant

\* a tile of 5 pixels where the colour of positions 0 and 1 is written although another
\* colour fills positions 2..4 and would have won a full count
C3_Witness ==
    /\ tpc = "painted"
    /\ x_factor * y_factor = 5
    /\ HasWinPos /\ WinPos = 1
    /\ inspected = {0, 1}
    /\ \E c \in Colours : TileCount(c) = 3 /\ ~Painted(c)

(***************************************************************************)
(* Properties of the whole program (Spec).                                 *)
(***************************************************************************)
\* main() is past the join loop
Assembling == pc \in {"prepare", "insert", "save", "saved"}

\* number of tiles per axis covered by sections
ProcessedWidth == x_sectionCount * x_section
ProcessedHeight == y_sectionCount * y_section

\* the source tile whose top-left pixel is (tx * x_factor, ty * y_factor)
SourceTile(tx, ty) == [x |-> tx * x_factor, y |-> ty * y_factor, w |-> x_factor, h |-> y_factor]

\* band b of pixel (tx, ty) of the assembled image
OutByte(tx, ty, b) == out.data[(ty * out.w + tx) * bandCount + b]

\* C4: in the saved image, every pixel (tx, ty) inside the processed extent holds the
\* reducer's result on the source tile at (tx * x_factor, ty * y_factor), whatever the
\* hardware concurrency and the interleaving of the workers.
C4_OutputIsReducedTiles ==
    pc = "saved" =>
        \A tx \in 0 .. ProcessedWidth - 1, ty \in 0 .. ProcessedHeight - 1 :
            /\ tx < out.w /\ ty < out.h
            /\ \A b \in 0 .. bandCount - 1 :
                  OutByte(tx, ty, b) =
                      UnpackBand(Reduce(AreaData(img, SourceTile(tx, ty), bandCount),
                                        x_factor * y_factor, bandCount),
                                 bandCount, b)

\* the 4x4 image of 2x2 blocks 1,2,3,4 with factors 2,2 and two workers gives [[1,2],[3,4]]
C4_Witness ==
    /\ pc = "saved"
    /\ img.width = 4 /\ img.height = 4 /\ img.pat = 0 /\ bandCount = 1
    /\ x_factor = 2 /\ y_factor = 2
    /\ workerCount = 2
    /\ out.w = 2 /\ out.h = 2
    /\ out.data = (0 :> 1 @@ 1 :> 2 @@ 2 :> 3 @@ 3 :> 4)

\* every worker thread has been started and has left Worker()
AllWorkersDone ==
    /\ pc \in {"join", "prepare", "insert", "save", "saved"}
    /\ \A w \in DOMAIN wpc : wpc[w] = "done"

\* C5: all pushes precede the first worker; no task is executed twice, no task is held by
\* two workers, and once every worker has exited every pushed task was executed exactly
\* once and the queue is empty.
C5_EachTaskRunsOnce ==
    /\ (pc = "create") => wpc = <<>>
    /\ \A id \in DOMAIN runCount : runCount[id] <= 1
    /\ \A w1 \in DOMAIN wpc, w2 \in DOMAIN wpc :
          (w1 /= w2 /\ wpc[w1] \in {"pop", "run"} /\ wpc[w2] \in {"pop", "run"})
              => task[w1].id /= task[w2].id
    /\ AllWorkersDone =>
          /\ Len(runCount) = x_sectionCount * y_sectionCount
          /\ \A id \in DOMAIN runCount : runCount[id] = 1 /\ id \in finished
          /\ m_tasks = <<>>

\* two workers drained a queue of at least four tasks
C5_Witness ==
    /\ AllWorkersDone
    /\ workerCount = 2
    /\ Len(runCount) >= 4
    /\ \A id \in DOMAIN runCount : runCount[id] = 1

\* C6: while main() assembles the final image the queue is empty, every worker has
\* exited and every pushed task has completed.
C6_JoinBarrier ==
    Assembling =>
        /\ m_tasks = <<>>
        /\ DOMAIN wpc = 1 .. workerCount
        /\ \A w \in DOMAIN wpc : wpc[w] = "done"
        /\ Len(runCount) = x_sectionCount * y_sectionCount
        /\ \A id \in DOMAIN runCount : id \in finished

\* main() has placed a block of the result of a two-worker run
C6_Witness ==
    /\ pc = "insert" /\ rIdx >= 1
    /\ workerCount = 2
    /\ Len(runCount) >= 2

\* the section (x_task, y_task) the id-th created task was made for
SectionOfTask(id) == <<(id - 1) \div y_sectionCount, (id - 1) % y_sectionCount>>

\* C7: every entry of the result map exists, with x_section * y_section * bandCount
\* bytes, before the first worker starts; every task writes only into the entry of its
\* own section and inside it; no byte is written by two tasks.
C7_DisjointWrites ==
    /\ (pc \in {"resize", "spawn", "join"}) =>
          /\ DOMAIN result = SectionKeys
          /\ \A k \in SectionKeys : DOMAIN result[k] = 0 .. (x_section * y_section * bandCount - 1)
    /\ \A wr \in writes :
          /\ wr[2] = SectionOfTask(wr[1])
          /\ wr[2] \in DOMAIN result
          /\ wr[3] >= 0 /\ wr[3] < x_section * y_section * bandCount
    /\ Cardinality({<<wr[2], wr[3]>> : wr \in writes}) = Cardinality(writes)

\* two workers are inside work() at the same time, each having written its own entry
C7_Witness ==
    \E w1 \in DOMAIN wpc, w2 \in DOMAIN wpc :
        /\ w1 /= w2
        /\ wpc[w1] = "run" /\ wpc[w2] = "run"
        /\ \E wr \in writes : wr[1] = task[w1].id
        /\ \E wr \in writes : wr[1] = task[w2].id

\* main() has computed its final workerCount
WorkerCountFinal ==
    pc \in {"sections", "halve_x", "halve_y", "geometry", "alloc", "create", "resize", "spawn",
            "join", "prepare", "insert", "save", "saved", "crashed"}

\* C8: the final workerCount is at least 1, for every image, factor pair and
\* hardware concurrency.
C8_WorkerCountAtLeastOne ==
    WorkerCountFinal => UGt(workerCount, 0) /\ workerCount >= 1

\* a factor larger than the image: no tile, and one worker
C8_Witness ==
    /\ pc = "sections"
    /\ x_factor > width /\ x_tiles = 0
    /\ workerCount = 1

\* the grid cell of section key
SectionCell(key) ==
    [x |-> key[1] * x_sectionSize, y |-> key[2] * y_sectionSize,
     w |-> x_sectionSize, h |-> y_sectionSize]

\* C9: the regions handed to tasks are the cells of the x_sectionCount by y_sectionCount
\* grid, one task per cell, pairwise disjoint and inside the image; a task reads source
\* pixels of its own cell only, so none at x >= x_sectionCount * x_sectionSize or
\* y >= y_sectionCount * y_sectionSize.
C9_Truncation ==
    /\ (pc \in {"create", "resize"}) =>
          /\ \A n \in DOMAIN m_tasks :
                /\ m_tasks[n].id = n
                /\ m_tasks[n].key = SectionOfTask(n)
                /\ m_tasks[n].area = SectionCell(m_tasks[n].key)
                /\ m_tasks[n].area.x + m_tasks[n].area.w <= width
                /\ m_tasks[n].area.y + m_tasks[n].area.h <= height
          /\ \A n1 \in DOMAIN m_tasks, n2 \in DOMAIN m_tasks :
                n1 /= n2 => AreaPixels(m_tasks[n1].area) \cap AreaPixels(m_tasks[n2].area) = {}
          /\ (pc = "resize") => Len(m_tasks) = x_sectionCount * y_sectionCount
    /\ \A r \in srcRead :
          /\ <<r[2], r[3]>> \in AreaPixels(SectionCell(SectionOfTask(r[1])))
          /\ r[2] < x_sectionCount * x_sectionSize
          /\ r[3] < y_sectionCount * y_sectionSize
          /\ r[2] < width /\ r[3] < height

\* width 10, x_factor 3, x_section 1: three sections of 3 columns were processed and
\* column 9 was read by no task
C9_Witness ==
    /\ pc = "saved"
    /\ width = 10 /\ x_factor = 3 /\ x_section = 1
    /\ x_sectionSize = 3 /\ x_sectionCount = 3
    /\ \E r \in srcRead : r[2] = 8
    /\ \A r \in srcRead : r[2] /= 9

\* the columns and rows of the assembled image that lie in the column range, row range,
\* of some section's block
CoveredColumns == {c \in 0 .. out.w - 1 : \E kx \in 0 .. x_sectionCount - 1 :
                      c >= BlockLeft(<<kx, 0>>) /\ c < BlockLeft(<<kx, 0>>) + x_section}
CoveredRows == {r \in 0 .. out.h - 1 : \E ky \in 0 .. y_sectionCount - 1 :
                   r >= BlockTop(<<0, ky>>) /\ r < BlockTop(<<0, ky>>) + y_section}

\* C10 (as claimed): the assembled image is as wide and high as the sections' extent,
\* and each of its columns and rows lies in some section's block.
C10_OutputHasSectionExtent ==
    pc = "saved" =>
        /\ out.w = ProcessedWidth /\ out.h = ProcessedHeight
        /\ CoveredColumns = 0 .. out.w - 1
        /\ CoveredRows = 0 .. out.h - 1

\* C10 (amended): the assembled image is x_tiles wide and y_tiles high; the sections'
\* extent is never larger, and where it is smaller the columns and rows from it on lie in
\* no section's block and hold the zero bytes of the resized outBuffer.
C10_OutputHasTileExtent ==
    pc = "saved" =>
        /\ out.w = x_tiles /\ out.h = y_tiles
        /\ ProcessedWidth <= out.w /\ ProcessedHeight <= out.h
        /\ CoveredColumns \subseteq 0 .. ProcessedWidth - 1
        /\ CoveredRows \subseteq 0 .. ProcessedHeight - 1
        /\ \A c \in 0 .. out.w - 1, r \in 0 .. out.h - 1, b \in 0 .. bandCount - 1 :
              (c >= ProcessedWidth \/ r >= ProcessedHeight) => OutByte(c, r, b) = 0

\* width 10, x_factor 2: sections cover 4 of the 5 tile columns of the saved image
C10_Witness ==
    /\ pc = "saved"
    /\ width = 10 /\ x_factor = 2
    /\ x_tiles = 5 /\ ProcessedWidth = 4
    /\ out.w = 5
    /\ \E r \in 0 .. out.h - 1 : OutByte(3, r, 0) /= 0

(***************************************************************************)
(* Properties of the argument checks (Spec).                               *)
(***************************************************************************)
\* C11: with argc < 5, or a factor below 1 after parsing, main has left with code -1;
\* whenever it leaves with code -1 no image was opened, no task was pushed and no worker
\* exists; with an opened image and both factors 1 it has left with code 0, again without
\* a task or a worker.
C11_ArgumentErrors ==
    /\ (pc /= "start" /\ argc < ArgcNeeded) => (pc = "exit" /\ exitCode = -1)
    /\ (pc \notin {"start", "factors"} /\ (x_factor < 1 \/ y_factor < 1))
          => (pc = "exit" /\ exitCode = -1)
    /\ (pc = "exit" /\ exitCode = -1)
          => (img = NoImage /\ m_tasks = <<>> /\ runCount = <<>> /\ wpc = <<>>)
    /\ (img /= NoImage /\ x_factor = 1 /\ y_factor = 1)
          => (pc = "exit" /\ exitCode = 0 /\ m_tasks = <<>> /\ runCount = <<>> /\ wpc = <<>>)

\* enough arguments, x_factor fine, y_factor below 1: left with -1 before the open
C11_Witness ==
    /\ pc = "exit" /\ exitCode = -1
    /\ argc >= ArgcNeeded /\ x_factor >= 1 /\ y_factor < 1
    /\ img = NoImage

(***************************************************************************)
(* Termination of the pool (SpecFair).                                     *)
(***************************************************************************)
\* every worker has exited, the list is empty, the mutex is free, every pushed task
\* has been run to completion, and the joins have returned
PoolDrained ==
    /\ pc \notin {"spawn", "join"}
    /\ AllWorkersDone
    /\ m_tasks = <<>> /\ m_mutex = 0
    /\ finished = 1 .. Len(runCount)
    /\ \A id \in 1 .. Len(runCount) : runCount[id] = 1

\* C12: under fair scheduling, once main() starts spawning workers the pool drains:
\* every worker sees the list empty and exits, every task has completed, the joins return.
C12_PoolTerminates == (pc = "spawn") ~> PoolDrained

\* two workers have drained a list of four tasks or more and main() has gone on
C12_Witness ==
    /\ PoolDrained
    /\ pc = "prepare"
    /\ Len(wpc) = 2 /\ Len(runCount) >= 4

(***************************************************************************)
(* Lock discipline of WorkerPool::Worker (SpecReport).                     *)
(***************************************************************************)
\* the positions of Worker() between locking and unlocking: the test of the list, its
\* measure, the two reports, front and pop_front
UnderLock == {"test", "measure", "report", "report_set", "eta", "eta_set", "front", "pop"}

\* C13: a worker that tests, measures or pops the list owns the mutex (so at most one
\* worker does at a time), and a worker that executes a task, waits for the mutex, or has
\* exited does not own it.
C13_LockDiscipline ==
    \A w \in DOMAIN wpc :
        /\ wpc[w] \in UnderLock => m_mutex = w
        /\ wpc[w] \notin UnderLock => m_mutex /= w

\* one worker executes a task while the other one, owning the mutex, pops the next
C13_Witness ==
    \E w1, w2 \in DOMAIN wpc :
        /\ wpc[w1] = "run" /\ wpc[w2] = "pop"
        /\ m_mutex = w2
        /\ task[w1].id /= task[w2].id

(***************************************************************************)
(* The progress reports (SpecReport).  A report is taken at the second it  *)
(* shows: the value of the clock stored in lastReport, etaReport when it   *)
(* is printed.                                                             *)
(***************************************************************************)
ReportsOf(kind) == {n \in DOMAIN reports : reports[n].kind = kind}

\* C14: any two elapsed-time reports, and any two ETA reports, are at least 5 seconds
\* apart, whichever threads printed them.
C14_ReportsRateLimited ==
    \A kind \in {"elapsed", "eta"} :
        \A m, n \in ReportsOf(kind) :
            m < n => reports[n].at - reports[m].at >= ReportPeriod

\* two workers; two elapsed-time reports and two ETA reports have been printed
C14_Witness ==
    /\ Len(wpc) = 2
    /\ Cardinality(ReportsOf("elapsed")) >= 2
    /\ Cardinality(ReportsOf("eta")) >= 2

\* the positions of Worker() inside ReportElapsedTime and EstimateTimeLeft
InReport == {"report", "report_set", "eta", "eta_set"}

\* the threads inside a report function: workers, and main() (0) at its last report
ThreadsInReport ==
    {w \in DOMAIN wpc : wpc[w] \in InReport} \cup (IF pc = "saved" THEN {0} ELSE {})

\* C15 (as claimed): the reports are not protected by the list's mutex: a worker inside
\* ReportElapsedTime or EstimateTimeLeft does not own it.
C15_ReportsOutsideMutex ==
    \A w \in DOMAIN wpc : wpc[w] \in InReport => m_mutex /= w

\* C15 (amended): a worker inside ReportElapsedTime or EstimateTimeLeft owns the mutex,
\* main() makes its last report when every worker has exited, and so at most one thread
\* is inside the report functions at any time.
C15_ReportsUnderMutex ==
    /\ \A w \in DOMAIN wpc : wpc[w] \in InReport => m_mutex = w
    /\ pc = "saved" => \A w \in DOMAIN wpc : wpc[w] = "done"
    /\ Cardinality(ThreadsInReport) <= 1

\* a worker is past the rate limit of EstimateTimeLeft, about to write etaReport, and
\* the other worker, done with a task, waits for the mutex
C15_Witness ==
    \E w1, w2 \in DOMAIN wpc :
        /\ wpc[w1] = "eta_set" /\ m_mutex = w1
        /\ wpc[w2] = "lock" /\ task[w2].id \in finished

\* C19 (as claimed): whenever EstimateTimeLeft computes, the elapsed time is positive,
\* pixelsLeft is at most totalPixels, and totalPixels - pixelsLeft is positive, so that
\* perSecond is not zero.
C19_EtaDivisorsNonZero ==
    \A n \in ReportsOf("eta") :
        /\ reports[n].elapsed > 0
        /\ ~UGt(reports[n].left, totalPixels)
        /\ UGt(reports[n].done, 0)

(***************************************************************************)
(* Properties of the planning (SpecPlan).                                  *)
(***************************************************************************)
\* an unsigned value that is even and below 2^31: no subtraction has wrapped it
EvenCount(wc) == wc >= 0 /\ wc % 2 = 0

C16_InLoop ==
    /\ (pc = "cut") => EvenCount(workerCount)
    /\ (pc = "clamp") =>
          /\ EvenCount(workerCount)
          /\ workerCount <= Min(x_tiles, y_tiles)
    /\ WorkerCountFinal =>
          \/ workerCount = 1
          \/ /\ EvenCount(workerCount) /\ workerCount >= 2
             /\ workerCount <= Min(x_tiles, y_tiles)

\* an iteration of the loop takes 2 from a count of at least 2
C16_Iteration ==
    (pc = "cut" /\ pc' = "cut") =>
        /\ workerCount >= 2
        /\ workerCount' = workerCount - 2
        /\ (workerCount > x_tiles \/ workerCount > y_tiles)

\* C16: the loop that cuts the worker count starts from an even count, every iteration
\* takes 2 from a count of at least 2 (the unsigned count never wraps below zero), the
\* loop is left, and the final workerCount is 1 or an even number that is at most
\* min(x_tiles, y_tiles).
C16_CutLoopNeverWraps ==
    /\ []C16_InLoop
    /\ [][C16_Iteration]_vars
    /\ (pc = "cut") ~> (pc = "clamp")

\* 3 tile columns and 6 tile rows: the loop is left with the count 2, the largest even
\* number that is not above both tile counts
C16_Witness ==
    /\ pc = "clamp"
    /\ width = 11 /\ x_factor = 3 /\ x_tiles = 3
    /\ height = 12 /\ y_factor = 2 /\ y_tiles = 6
    /\ workerCount = 2

\* main() has computed the section counts or has stopped at a division
Planned == pc \in {"alloc", "crashed"}

\* C18: with x_tiles >= 1 and y_tiles >= 1, x_section and y_section are at least 1
\* from the division on and through the halving, the section sizes are not zero, no
\* division stops at a zero divisor, and there is at least one section on each axis.
C18_SectionsNotDegenerate ==
    (x_tiles >= 1 /\ y_tiles >= 1) =>
        /\ pc /= "crashed"
        /\ (pc \in {"halve_x", "halve_y", "geometry", "alloc"}) =>
              x_section >= 1 /\ y_section >= 1
        /\ (pc = "sections") => workerCount /= 0
        /\ (pc = "geometry") => x_section * x_factor /= 0 /\ y_section * y_factor /= 0
        /\ (pc = "alloc") =>
              /\ x_sectionSize >= 1 /\ y_sectionSize >= 1
              /\ x_sectionCount >= 1 /\ y_sectionCount >= 1

\* 12 tile columns for 2 workers with x_factor 1: the section of 6 was halved to 3 and
\* to 1, and 12 sections lie on the x axis
C18_Witness ==
    /\ pc = "alloc"
    /\ width = 12 /\ x_factor = 1 /\ workerCount = 2
    /\ x_section = 1 /\ x_sectionCount = 12
    /\ y_sectionCount >= 1

(***************************************************************************)
(* Properties of the colour key (SpecPack).                                *)
(***************************************************************************)
\* sample of band b of the pixel that was packed
PackedBand(b) == pixels[i * bandCount + b]

\* C17: for 1 to 4 bands the key of a pixel holds band b in its byte bandCount - 1 - b
\* (the first band in the most significant of the bandCount low bytes) and zero above;
\* no other pixel has the same key; unpacking the key gives the pixel's band samples in
\* the order of the bands.
C17_KeyRoundTrip ==
    /\ (tpc \in {"unpack", "unpacked"}) =>
          /\ \A b \in 0 .. bandCount - 1 : vote.dominant[bandCount - 1 - b] = PackedBand(b)
          /\ \A j \in bandCount .. UIntBytes - 1 : vote.dominant[j] = 0
          /\ \A q \in SamplePixels(bandCount) :
                (PackColor(q, 0, bandCount) = vote.dominant) =>
                    \A b \in 0 .. bandCount - 1 : q[b] = PackedBand(b)
    /\ (tpc = "unpacked") =>
          /\ DOMAIN outvec = 0 .. bandCount - 1
          /\ \A b \in 0 .. bandCount - 1 : outvec[b] = PackedBand(b)

\* four bands, the first with its top bit set and all four different: the key fills
\* the 32 bits and the unpacked pixel is the packed one
C17_Witness ==
    /\ tpc = "unpacked"
    /\ bandCount = UIntBytes /\ i = 1
    /\ PackedBand(0) = ByteMod - 1 /\ PackedBand(0) >= ByteMod \div 2
    /\ Cardinality({PackedBand(b) : b \in 0 .. bandCount - 1}) = bandCount
    /\ vote.dominant[UIntBytes - 1] = ByteMod - 1
    /\ outvec[0] = ByteMod - 1 /\ outvec[bandCount - 1] = PackedBand(bandCount - 1)

(***************************************************************************)
(* Properties of the assembly (Spec).                                      *)
(***************************************************************************)
\* the output pixels section key's block is to occupy
BlockCell(key) ==
    [x |-> key[1] * x_section, y |-> key[2] * y_section, w |-> x_section, h |-> y_section]

\* the keys whose blocks the insert loop has placed
InsertedKeys == {ResultKey(n) : n \in 0 .. rIdx - 1}

\* C20: during and after the assembly the blocks of the sections, each x_section by
\* y_section at (sectionX * x_section, sectionY * y_section), are pairwise disjoint and
\* inside the x_tiles by y_tiles image (x_sectionCount * x_section <= x_tiles,
\* y_sectionCount * y_section <= y_tiles), and every block the loop has inserted is
\* found at that position of the image.
C20_BlockPlacement ==
    (pc \in {"insert", "save", "saved"}) =>
        /\ DOMAIN result = SectionKeys
        /\ x_sectionCount * x_section <= x_tiles
        /\ y_sectionCount * y_section <= y_tiles
        /\ out.w = x_tiles /\ out.h = y_tiles
        /\ \A key \in DOMAIN result :
              /\ BlockCell(key).x + x_section <= out.w
              /\ BlockCell(key).y + y_section <= out.h
        /\ \A k1 \in DOMAIN result, k2 \in DOMAIN result :
              k1 /= k2 => AreaPixels(BlockCell(k1)) \cap AreaPixels(BlockCell(k2)) = {}
        /\ InsertedKeys \subseteq DOMAIN result
        /\ \A key \in InsertedKeys :
              \A tx \in 0 .. x_section - 1, ty \in 0 .. y_section - 1, b \in 0 .. bandCount - 1 :
                  OutByte(BlockCell(key).x + tx, BlockCell(key).y + ty, b)
                      = result[key][(ty * x_section + tx) * bandCount + b]

\* two sections on each axis, blocks of more than one pixel: the last block was
\* inserted away from the origin on both axes and holds a byte that is not zero
C20_Witness ==
    /\ pc = "save"
    /\ x_sectionCount >= 2 /\ y_sectionCount >= 2
    /\ x_section * y_section >= 2
    /\ rIdx = x_sectionCount * y_sectionCount
    /\ <<x_sectionCount - 1, y_sectionCount - 1>> \in InsertedKeys
    /\ \E b \in 0 .. bandCount - 1 :
          OutByte((x_sectionCount - 1) * x_section, (y_sectionCount - 1) * y_section, b) /= 0

====
